---- MODULE Spec2Model ----
(***************************************************************************)
(* Outbound network configuration of the Atlassian MCP server: the        *)
(* NO_PROXY hostname matcher (shouldBypassProxy), the resolvers            *)
(* getNetworkConfig and getProxyConfig, the client constructors that call  *)
(* them, the operations of the clients, and the callback wait of the       *)
(* OAuth setup.                                                            *)
(*                                                                         *)
(* A JavaScript string is a sequence of one-character strings, so that     *)
(* split, trim, toLowerCase, startsWith, endsWith and URL parsing are      *)
(* computed and not assumed.  An unset environment variable is Undefined.  *)
(***************************************************************************)
EXTENDS Integers, Sequences, FiniteSets, TLC

\* env is process.env; call is the last call made and its outcome; requests
\* are the HTTP requests the clients issued; oauth is the OAuth setup run.
VARIABLES env, call, requests, oauth

vars == <<env, call, requests, oauth>>

(***************************************************************************)
(* Bounds of the model.                                                    *)
(***************************************************************************)
MaxHostLen == 3
MaxEntries == 2
MaxEnvSet == 3
MaxRequests == 2
MaxCallbacks == 3

(***************************************************************************)
(* Strings.                                                                *)
(***************************************************************************)
Undefined == <<"undefined">>

\* No OAuth setup is running.
NoOAuth == [pc |-> "none"]

UpperLetters == <<"A","B","C","D","E","F","G","H","I","J","K","L","M",
                  "N","O","P","Q","R","S","T","U","V","W","X","Y","Z">>

LowerLetters == <<"a","b","c","d","e","f","g","h","i","j","k","l","m",
                  "n","o","p","q","r","s","t","u","v","w","x","y","z">>

Digits == {"0","1","2","3","4","5","6","7","8","9"}

Whitespace == {" ", "\t"}

UpperSet == {UpperLetters[i] : i \in 1..26}

AlphaSet == UpperSet \cup {LowerLetters[i] : i \in 1..26}

LowerOf == [c \in UpperSet |-> LowerLetters[CHOOSE i \in 1..26 : UpperLetters[i] = c]]

IsAlpha(c) == c \in AlphaSet

toLowerChar(c) == IF c \in UpperSet THEN LowerOf[c] ELSE c

toLowerCase(s) == [i \in 1..Len(s) |-> toLowerChar(s[i])]

DropWhile(s, set) ==
    LET keep == {i \in 1..Len(s) : s[i] \notin set}
    IN  IF keep = {} THEN <<>>
        ELSE SubSeq(s, CHOOSE i \in keep : \A j \in keep : i <= j, Len(s))

DropEndWhile(s, set) ==
    LET keep == {i \in 1..Len(s) : s[i] \notin set}
    IN  IF keep = {} THEN <<>>
        ELSE SubSeq(s, 1, CHOOSE i \in keep : \A j \in keep : j <= i)

trim(s) == DropEndWhile(DropWhile(s, Whitespace), Whitespace)

startsWith(s, p) == Len(p) <= Len(s) /\ SubSeq(s, 1, Len(p)) = p

endsWith(s, p) ==
    Len(p) <= Len(s) /\ SubSeq(s, Len(s) - Len(p) + 1, Len(s)) = p

\* Index of the first element of s that is in set, 0 when there is none.
IndexOfAny(s, set) ==
    LET hits == {i \in 1..Len(s) : s[i] \in set}
    IN  IF hits = {} THEN 0 ELSE CHOOSE i \in hits : \A j \in hits : i <= j

RECURSIVE split(_, _)
split(s, sep) ==
    LET i == IndexOfAny(s, {sep})
    IN  IF i = 0 THEN <<s>>
        ELSE <<SubSeq(s, 1, i - 1)>> \o split(SubSeq(s, i + 1, Len(s)), sep)

\* All strings over an alphabet with a length in lo..hi.
Strings(alphabet, lo, hi) == UNION {[1..n -> alphabet] : n \in lo..hi}

(***************************************************************************)
(* new URL(input): the WHATWG parser on inputs without credentials, query  *)
(* or fragment, and without numeric or bracketed hosts.  ok = FALSE is the *)
(* TypeError the constructor throws.                                       *)
(***************************************************************************)
SpecialSchemes == {<<"h","t","t","p">>, <<"h","t","t","p","s">>}

ForbiddenHostChars == {" ", "\t", "#", "/", ":", "<", ">", "?", "@", "[", "\\", "]", "^", "|", "%"}

IsSchemeChar(c) == IsAlpha(c) \/ c \in Digits \/ c \in {"+", "-", "."}

InvalidURL == [ok |-> FALSE, protocol |-> <<>>, hostname |-> <<>>]

\* The part of s before the first element in set (all of s without one).
Before(s, set) ==
    LET i == IndexOfAny(s, set) IN IF i = 0 THEN s ELSE SubSeq(s, 1, i - 1)

\* The part of s after the first element in set (empty without one).
After(s, set) ==
    LET i == IndexOfAny(s, set) IN IF i = 0 THEN <<>> ELSE SubSeq(s, i + 1, Len(s))

URLResult(scheme, host, port) ==
    IF \E k \in 1..Len(port) : port[k] \notin Digits THEN InvalidURL
    ELSE IF \E k \in 1..Len(host) : host[k] \in ForbiddenHostChars THEN InvalidURL
    ELSE IF scheme \in SpecialSchemes /\ host = <<>> THEN InvalidURL
    ELSE [ok       |-> TRUE,
          protocol |-> scheme \o <<":">>,
          hostname |-> IF scheme \in SpecialSchemes THEN toLowerCase(host) ELSE host]

URLHost(scheme, authority) ==
    URLResult(scheme, Before(authority, {":"}), After(authority, {":"}))

\* A special scheme ignores any run of slashes before the authority; another
\* scheme has an authority only after "//".
URLAuthority(scheme, rest) ==
    IF scheme \in SpecialSchemes
    THEN URLHost(scheme, Before(DropWhile(rest, {"/", "\\"}), {"/", "\\"}))
    ELSE IF startsWith(rest, <<"/", "/">>)
    THEN URLHost(scheme, Before(SubSeq(rest, 3, Len(rest)), {"/"}))
    ELSE URLHost(scheme, <<>>)

URLScheme(s, colon) ==
    IF colon <= 1 THEN InvalidURL
    ELSE IF ~IsAlpha(s[1]) \/ \E k \in 2..(colon - 1) : ~IsSchemeChar(s[k])
    THEN InvalidURL
    ELSE URLAuthority(toLowerCase(SubSeq(s, 1, colon - 1)), SubSeq(s, colon + 1, Len(s)))

URLTrimmed(s) == URLScheme(s, IndexOfAny(s, {":"}))

URL(input) == URLTrimmed(trim(input))

(***************************************************************************)
(* shouldBypassProxy, the exported revision (with getNetworkConfig).       *)
(***************************************************************************)
\* Mutant of EntryMatchesNet: the suffix rule without the separating dot.
EntryMatchesNetNoDot(hostname, entry) ==
    \/ entry = <<"*">>
    \/ hostname = entry
    \/ endsWith(hostname, entry)

EntryMatchesNet(hostname, entry) ==
    \/ entry = <<"*">>
    \/ hostname = entry
    \/ startsWith(entry, <<".">>) /\ endsWith(hostname, entry)
    \/ ~startsWith(entry, <<".">>) /\ endsWith(hostname, <<".">> \o entry)

\* Mutant of EntryMatchesProxy: only the last rule serves the suffix match.
EntryMatchesProxyLastRuleOnly(lowerHost, entry) ==
    \/ entry = <<"*">>
    \/ lowerHost = entry
    \/ endsWith(lowerHost, <<".">> \o entry)

\* The revision of src/utils/proxy.ts: the last rule is tried for every entry.
EntryMatchesProxy(lowerHost, entry) ==
    \/ entry = <<"*">>
    \/ lowerHost = entry
    \/ startsWith(entry, <<".">>) /\ endsWith(lowerHost, entry)
    \/ endsWith(lowerHost, <<".">> \o entry)

\* Mutant of NoProxyEntries: the entries are trimmed but not lower-cased.
NoProxyEntriesNoLower(noProxy) ==
    LET parts == split(noProxy, ",")
    IN  [i \in 1..Len(parts) |-> trim(parts[i])]

NoProxyEntries(noProxy) ==
    LET parts == split(noProxy, ",")
    IN  [i \in 1..Len(parts) |-> toLowerCase(trim(parts[i]))]

RECURSIVE LoopNet(_, _, _)
LoopNet(entries, hostname, k) ==
    IF k > Len(entries) THEN FALSE
    ELSE IF entries[k] = <<>> THEN LoopNet(entries, hostname, k + 1)
    ELSE IF EntryMatchesNet(hostname, entries[k]) THEN TRUE
    ELSE LoopNet(entries, hostname, k + 1)

RECURSIVE LoopProxy(_, _, _)
LoopProxy(entries, lowerHost, k) ==
    IF k > Len(entries) THEN FALSE
    ELSE IF entries[k] = <<>> THEN LoopProxy(entries, lowerHost, k + 1)
    ELSE IF EntryMatchesProxy(lowerHost, entries[k]) THEN TRUE
    ELSE LoopProxy(entries, lowerHost, k + 1)

Truthy(v) == v # Undefined /\ v # <<>>

\* Mutant of OnBadTargetNet: the TypeError of new URL escapes.
OnBadTargetRaises == "threw"

\* catch { return false }: a target that is no URL is not bypassed.
OnBadTargetNet == "false"

\* Mutant of OnBadTargetProxy: a target that is no URL counts as bypassed.
OnBadTargetBypasses == "true"

OnBadTargetProxy == "false"

\* The result is "true", "false", or "threw" when an exception escapes.
BypassNet(parsed, noProxy) ==
    IF ~parsed.ok THEN OnBadTargetNet
    ELSE IF LoopNet(NoProxyEntries(noProxy), toLowerCase(parsed.hostname), 1)
    THEN "true" ELSE "false"

shouldBypassProxyNet(url, noProxy) ==
    IF ~Truthy(noProxy) THEN "false" ELSE BypassNet(URL(url), noProxy)

BypassProxy(parsed, noProxy) ==
    IF ~parsed.ok THEN OnBadTargetProxy
    ELSE IF LoopProxy(NoProxyEntries(noProxy), toLowerCase(parsed.hostname), 1)
    THEN "true" ELSE "false"

shouldBypassProxy(targetUrl, noProxy) ==
    IF ~Truthy(noProxy) THEN "false" ELSE BypassProxy(URL(targetUrl), noProxy)

(***************************************************************************)
(* The process environment.                                                *)
(***************************************************************************)
Services == {"jira", "confluence"}

toUpperCase(service) ==
    CASE service = "jira" -> "JIRA"
      [] service = "confluence" -> "CONFLUENCE"
      [] service = "atlassian" -> "ATLASSIAN"

ScopedSuffixes == {"_HTTP_PROXY", "_HTTPS_PROXY", "_SOCKS_PROXY", "_NO_PROXY",
                   "_SSL_VERIFY", "_URL", "_PERSONAL_TOKEN"}

GlobalNames == {"HTTP_PROXY", "http_proxy", "HTTPS_PROXY", "https_proxy",
                "SOCKS_PROXY", "socks_proxy", "NO_PROXY", "no_proxy",
                "npm_config_proxy", "npm_config_https_proxy",
                "npm_config_noproxy"}

ScopedNames(service) == {toUpperCase(service) \o x : x \in ScopedSuffixes}

\* process.env[name]: env holds the variables that are set.
Getenv(name) == IF name \in DOMAIN env THEN env[name] ELSE Undefined

Http == <<"h","t","t","p">>
Https == <<"h","t","t","p","s">>
Socks5 == <<"s","o","c","k","s","5">>
Slashes == <<":","/","/">>
FalseStr == <<"f","a","l","s","e">>

\* The targets a client is pointed at; the last one is no URL.
Targets == {Https \o Slashes \o <<"a",".","b">>,
            Http \o Slashes \o <<"a",".","b">>,
            <<"a",".","b">>}

\* The values a variable is set to: every proxy variable names a proxy host
\* of its own (so that a config shows where its endpoint came from), or holds
\* a string that is no URL; a scoped variable may also be set to "".
EnvValues(name) ==
    CASE name = "HTTP_PROXY"  -> {Http \o Slashes \o <<"g","h">>, <<"g","h">>}
      [] name = "http_proxy"  -> {Http \o Slashes \o <<"l","h">>}
      [] name = "HTTPS_PROXY" -> {Http \o Slashes \o <<"g","t">>}
      [] name = "https_proxy" -> {Http \o Slashes \o <<"l","t">>}
      [] name = "SOCKS_PROXY" -> {Socks5 \o Slashes \o <<"g","k">>}
      [] name = "socks_proxy" -> {Socks5 \o Slashes \o <<"l","k">>}
      [] name = "NO_PROXY"    -> {<<"*">>}
      [] name = "no_proxy"    -> {<<"A",".","b">>}
      [] name = "npm_config_proxy"       -> {Http \o Slashes \o <<"n","h">>}
      [] name = "npm_config_https_proxy" -> {Http \o Slashes \o <<"n","t">>}
      [] name = "npm_config_noproxy"     -> {<<"b">>}
      [] \E s \in Services : name = toUpperCase(s) \o "_HTTP_PROXY" ->
            {Http \o Slashes \o <<"s","h">>}
      [] \E s \in Services : name = toUpperCase(s) \o "_HTTPS_PROXY" ->
            {Http \o Slashes \o <<"s","t">>, <<"s","t">>, <<>>}
      [] \E s \in Services : name = toUpperCase(s) \o "_SOCKS_PROXY" ->
            {Socks5 \o Slashes \o <<"s","k">>, Http \o Slashes \o <<"s","k">>}
      [] \E s \in Services : name = toUpperCase(s) \o "_NO_PROXY" ->
            {<<" ",".","b">>, <<".","c">>}
      [] \E s \in Services : name = toUpperCase(s) \o "_SSL_VERIFY" ->
            {FalseStr, <<"F","A","L","S","E">>, <<"0">>, <<>>}
      [] \E s \in Services : name = toUpperCase(s) \o "_URL" ->
            {Https \o Slashes \o <<"a",".","b">>, Http \o Slashes \o <<"a",".","b">>, <<>>}
      [] OTHER -> {<<"x">>}

\* The environments that set exactly the variables of a set.
RECURSIVE EnvsOver(_)
EnvsOver(set) ==
    IF set = {} THEN {<<>>}
    ELSE LET n == CHOOSE x \in set : TRUE
         IN  {(n :> v) @@ e : v \in EnvValues(n), e \in EnvsOver(set \ {n})}

\* A process starts with at most MaxEnvSet variables set, those of one
\* service and the global ones.
Init ==
    /\ \E s \in Services :
         \E set \in {t \in SUBSET (GlobalNames \cup ScopedNames(s)) :
                       Cardinality(t) <= MaxEnvSet} :
           env \in EnvsOver(set)
    /\ call = [fn |-> "none"]
    /\ requests = <<>>
    /\ oauth = NoOAuth

(***************************************************************************)
(* Agents.  A constructor given a string parses it with new URL and lets   *)
(* the TypeError escape; id tells the objects of one call apart.           *)
(***************************************************************************)
NoAgent == [kind |-> "none", proxy |-> <<>>, rejectUnauthorized |-> "unset", id |-> 0]

Agent(kind, proxy, reject, id) ==
    [kind |-> kind, proxy |-> proxy, rejectUnauthorized |-> reject, id |-> id]

SocksProtocols == {<<"s","o","c","k","s",":">>, <<"s","o","c","k","s","4",":">>,
                   <<"s","o","c","k","s","4","a",":">>, <<"s","o","c","k","s","5",":">>,
                   <<"s","o","c","k","s","5","h",":">>}

SocksUrlRejected(url) == ~url.ok \/ url.protocol \notin SocksProtocols

SocksProxyAgentThrows(uri) == SocksUrlRejected(URL(uri))

HttpProxyAgentThrows(proxy) == ~URL(proxy).ok

HttpsProxyAgentThrows(proxy) == ~URL(proxy).ok

Or(a, b) == IF Truthy(a) THEN a ELSE b

EmptyConfig == [httpAgent |-> NoAgent, httpsAgent |-> NoAgent, proxy |-> "absent"]

Threw == [status |-> "threw", config |-> EmptyConfig]

Returned(config) == [status |-> "returned", config |-> config]

(***************************************************************************)
(* getNetworkConfig(service, baseUrl), in its two revisions.               *)
(***************************************************************************)
\* Mutant of NetSslVerify: the value is compared without regard to case.
NetSslVerifyAnyCase(prefix) ==
    toLowerCase(Getenv(prefix \o "_SSL_VERIFY")) # FalseStr

NetSslVerify(prefix) == Getenv(prefix \o "_SSL_VERIFY") # FalseStr

NetHttpProxy(prefix) ==
    Or(Getenv(prefix \o "_HTTP_PROXY"), Or(Getenv("HTTP_PROXY"), Getenv("http_proxy")))

\* Mutant of NetHttpsProxy: ?? in place of ||, so a variable set to "" wins.
NetHttpsProxyNullish(prefix) ==
    IF Getenv(prefix \o "_HTTPS_PROXY") # Undefined THEN Getenv(prefix \o "_HTTPS_PROXY")
    ELSE IF Getenv("HTTPS_PROXY") # Undefined THEN Getenv("HTTPS_PROXY")
    ELSE Getenv("https_proxy")

NetHttpsProxy(prefix) ==
    Or(Getenv(prefix \o "_HTTPS_PROXY"), Or(Getenv("HTTPS_PROXY"), Getenv("https_proxy")))

NetSocksProxy(prefix) ==
    Or(Getenv(prefix \o "_SOCKS_PROXY"), Or(Getenv("SOCKS_PROXY"), Getenv("socks_proxy")))

NetNoProxy(prefix) ==
    Or(Getenv(prefix \o "_NO_PROXY"), Or(Getenv("NO_PROXY"), Getenv("no_proxy")))

\* Mutant of SocksAgent: the SOCKS agent is left with its default TLS options.
SocksAgentNoOverride(rev, socksProxy, sslVerify) ==
    Agent("socks", socksProxy, "unset", 1)

\* rev 1: agent.options.rejectUnauthorized = false; rev 2 guards the assignment
\* with if (agentOpts), and http.Agent always has options.
SocksAgent(rev, socksProxy, sslVerify) ==
    Agent("socks", socksProxy, IF sslVerify THEN "unset" ELSE "false", 1)

NetSocksBranch(rev, socksProxy, sslVerify) ==
    IF SocksProxyAgentThrows(socksProxy) THEN Threw
    ELSE LET agent == SocksAgent(rev, socksProxy, sslVerify)
         IN  Returned([httpAgent |-> agent, httpsAgent |-> agent, proxy |-> "false"])

NetProxyBranch(httpProxy, httpsProxy, sslVerify) ==
    LET proxyForHttps == Or(httpsProxy, httpProxy)
    IN  IF Truthy(httpProxy) /\ HttpProxyAgentThrows(httpProxy) THEN Threw
        ELSE IF Truthy(proxyForHttps) /\ HttpsProxyAgentThrows(proxyForHttps) THEN Threw
        ELSE Returned(
          [httpAgent  |-> IF Truthy(httpProxy)
                          THEN Agent("http-proxy", httpProxy, "unset", 1)
                          ELSE NoAgent,
           httpsAgent |-> IF Truthy(proxyForHttps)
                          THEN Agent("https-proxy", proxyForHttps,
                                     IF sslVerify THEN "unset" ELSE "false", 2)
                          ELSE NoAgent,
           proxy      |-> "false"])

\* Mutant of NetDirectBranch: the TLS setting is dropped when no proxy is used.
NetDirectBranchNoTls(sslVerify) == Returned(EmptyConfig)

NetDirectBranch(sslVerify) ==
    IF ~sslVerify
    THEN Returned([EmptyConfig EXCEPT !.httpsAgent = Agent("direct", <<>>, "false", 1)])
    ELSE Returned(EmptyConfig)

\* Mutant of NetSelect: the HTTP/HTTPS endpoints are tried before SOCKS.
NetSelectHttpFirst(rev, sslVerify, httpProxy, httpsProxy, socksProxy, bypass) ==
    IF bypass = "threw" THEN Threw
    ELSE IF bypass # "true" /\ (Truthy(httpsProxy) \/ Truthy(httpProxy))
    THEN NetProxyBranch(httpProxy, httpsProxy, sslVerify)
    ELSE IF bypass # "true" /\ Truthy(socksProxy)
    THEN NetSocksBranch(rev, socksProxy, sslVerify)
    ELSE NetDirectBranch(sslVerify)

NetSelect(rev, sslVerify, httpProxy, httpsProxy, socksProxy, bypass) ==
    IF bypass = "threw" THEN Threw
    ELSE IF bypass # "true" /\ Truthy(socksProxy)
    THEN NetSocksBranch(rev, socksProxy, sslVerify)
    ELSE IF bypass # "true" /\ (Truthy(httpsProxy) \/ Truthy(httpProxy))
    THEN NetProxyBranch(httpProxy, httpsProxy, sslVerify)
    ELSE NetDirectBranch(sslVerify)

NetResolve(rev, prefix, baseUrl) ==
    NetSelect(rev, NetSslVerify(prefix), NetHttpProxy(prefix), NetHttpsProxy(prefix),
              NetSocksProxy(prefix), shouldBypassProxyNet(baseUrl, NetNoProxy(prefix)))

getNetworkConfig(rev, service, baseUrl) == NetResolve(rev, toUpperCase(service), baseUrl)

\* The endpoints and the list the call read from the environment.
NetLocals(prefix) ==
    [httpProxy |-> NetHttpProxy(prefix), httpsProxy |-> NetHttpsProxy(prefix),
     socksProxy |-> NetSocksProxy(prefix), noProxy |-> NetNoProxy(prefix)]

(***************************************************************************)
(* getProxyConfig(service, targetUrl, sslVerify) of src/utils/proxy.ts.    *)
(***************************************************************************)
ProxyHttpProxy(prefix) ==
    Or(Getenv(prefix \o "_HTTP_PROXY"),
       Or(Getenv("HTTP_PROXY"), Or(Getenv("npm_config_proxy"), <<>>)))

ProxyHttpsProxy(prefix) ==
    Or(Getenv(prefix \o "_HTTPS_PROXY"),
       Or(Getenv("HTTPS_PROXY"), Or(Getenv("npm_config_https_proxy"), <<>>)))

ProxyNoProxy(prefix) ==
    Or(Getenv(prefix \o "_NO_PROXY"),
       Or(Getenv("NO_PROXY"), Or(Getenv("npm_config_noproxy"), <<>>)))

ProxyUrl(isHttps, httpProxy, httpsProxy) ==
    IF isHttps THEN Or(httpsProxy, httpProxy) ELSE Or(httpProxy, httpsProxy)

\* Both the bypass path and the no-proxy path: only the TLS setting applies.
ProxyDirect(sslVerify) ==
    IF ~sslVerify
    THEN Returned([EmptyConfig EXCEPT !.httpsAgent = Agent("direct", <<>>, "false", 1)])
    ELSE Returned(EmptyConfig)

ProxyAgents(isHttps, httpProxy, proxyUrl, sslVerify) ==
    IF ~isHttps /\ Truthy(httpProxy) /\ HttpProxyAgentThrows(httpProxy) THEN Threw
    ELSE IF isHttps /\ HttpsProxyAgentThrows(proxyUrl) THEN Threw
    ELSE Returned(
      [httpAgent  |-> IF ~isHttps /\ Truthy(httpProxy)
                      THEN Agent("http-proxy", httpProxy, "unset", 1)
                      ELSE NoAgent,
       httpsAgent |-> IF isHttps
                      THEN Agent("https-proxy", proxyUrl,
                                 IF sslVerify THEN "true" ELSE "false", 2)
                      ELSE NoAgent,
       proxy      |-> "absent"])

\* Mutant of ProxySelect: the bypass verdict is not consulted.
ProxySelectNoBypass(isHttps, httpProxy, httpsProxy, bypass, sslVerify) ==
    IF bypass = "threw" THEN Threw
    ELSE IF ~Truthy(ProxyUrl(isHttps, httpProxy, httpsProxy)) THEN ProxyDirect(sslVerify)
    ELSE ProxyAgents(isHttps, httpProxy, ProxyUrl(isHttps, httpProxy, httpsProxy),
                     sslVerify)

ProxySelect(isHttps, httpProxy, httpsProxy, bypass, sslVerify) ==
    IF bypass = "threw" THEN Threw
    ELSE IF bypass = "true" THEN ProxyDirect(sslVerify)
    ELSE IF ~Truthy(ProxyUrl(isHttps, httpProxy, httpsProxy)) THEN ProxyDirect(sslVerify)
    ELSE ProxyAgents(isHttps, httpProxy, ProxyUrl(isHttps, httpProxy, httpsProxy),
                     sslVerify)

ProxyResolve(prefix, targetUrl, sslVerify) ==
    ProxySelect(startsWith(targetUrl, Https), ProxyHttpProxy(prefix),
                ProxyHttpsProxy(prefix),
                shouldBypassProxy(targetUrl, ProxyNoProxy(prefix)), sslVerify)

getProxyConfig(service, targetUrl, sslVerify) ==
    ProxyResolve(toUpperCase(service), targetUrl, sslVerify)

ProxyLocals(prefix) ==
    [httpProxy |-> ProxyHttpProxy(prefix), httpsProxy |-> ProxyHttpsProxy(prefix),
     noProxy |-> ProxyNoProxy(prefix)]

(***************************************************************************)
(* getProxyConfig(service), the one-argument revision.  service is the     *)
(* upper-case prefix.                                                      *)
(***************************************************************************)
\* process.env[name] of a process whose environment is e.
GetenvIn(e, name) == IF name \in DOMAIN e THEN e[name] ELSE Undefined

OneArgHttpsProxyIn(e, service) ==
    Or(GetenvIn(e, service \o "_HTTPS_PROXY"),
       Or(GetenvIn(e, "HTTPS_PROXY"),
          Or(GetenvIn(e, "https_proxy"),
             Or(GetenvIn(e, service \o "_HTTP_PROXY"),
                Or(GetenvIn(e, "HTTP_PROXY"), GetenvIn(e, "http_proxy"))))))

OneArgHttpsProxy(service) == OneArgHttpsProxyIn(env, service)

\* Read for the log line only.
OneArgNoProxyIn(e, service) ==
    Or(GetenvIn(e, service \o "_NO_PROXY"),
       Or(GetenvIn(e, "NO_PROXY"), Or(GetenvIn(e, "no_proxy"), <<>>)))

OneArgNoProxy(service) == OneArgNoProxyIn(env, service)

\* { proxy: undefined }: the key is there, without agents.
OneArgNoProxyConfig == [httpAgent |-> NoAgent, httpsAgent |-> NoAgent, proxy |-> "undefined"]

OneArgAgents(httpsProxy) ==
    IF HttpProxyAgentThrows(httpsProxy) \/ HttpsProxyAgentThrows(httpsProxy) THEN Threw
    ELSE Returned([httpAgent  |-> Agent("http-proxy", httpsProxy, "unset", 1),
                   httpsAgent |-> Agent("https-proxy", httpsProxy, "unset", 2),
                   proxy      |-> "false"])

OneArgSelect(httpsProxy) ==
    IF ~Truthy(httpsProxy) THEN Returned(OneArgNoProxyConfig)
    ELSE OneArgAgents(httpsProxy)

\* Mutant of getProxyConfigOneArgIn: a bypass list that is set turns the
\* proxy off.
getProxyConfigOneArgBypassing(e, service) ==
    IF Truthy(OneArgNoProxyIn(e, service)) THEN Returned(OneArgNoProxyConfig)
    ELSE OneArgSelect(OneArgHttpsProxyIn(e, service))

\* The call in a process whose environment is e.
getProxyConfigOneArgIn(e, service) == OneArgSelect(OneArgHttpsProxyIn(e, service))

getProxyConfigOneArg(service) == getProxyConfigOneArgIn(env, service)

OneArgLocals(service) ==
    [httpsProxy |-> OneArgHttpsProxy(service), noProxy |-> OneArgNoProxy(service)]

(***************************************************************************)
(* The constructors of JiraClient and ConfluenceClient.                    *)
(***************************************************************************)
ClientBaseUrl(prefix) == Or(Getenv(prefix \o "_URL"), <<>>)

HasCredentials(prefix) ==
    \/ Truthy(Getenv(prefix \o "_PERSONAL_TOKEN"))
    \/ Truthy(Getenv(prefix \o "_USERNAME")) /\ Truthy(Getenv(prefix \o "_API_TOKEN"))

ClientSslVerify(prefix) == Getenv(prefix \o "_SSL_VERIFY") # FalseStr

\* resolverCalls lists the (service, targetUrl, sslVerify) the constructor
\* passed to getProxyConfig; axios tells whether axios.create was reached.
ClientCreated(service, baseUrl, sslVerify, proxyConfig) ==
    [status |-> proxyConfig.status, config |-> proxyConfig.config,
     resolverCalls |-> <<[service |-> service, targetUrl |-> baseUrl,
                          sslVerify |-> sslVerify]>>,
     axios |-> proxyConfig.status = "returned"]

ClientResolve(service, baseUrl, sslVerify) ==
    ClientCreated(service, baseUrl, sslVerify,
                  getProxyConfig(service, baseUrl, sslVerify))

ClientConstructor(service, prefix) ==
    IF ~Truthy(ClientBaseUrl(prefix)) \/ ~HasCredentials(prefix)
    THEN [status |-> "threw", config |-> EmptyConfig,
          resolverCalls |-> <<>>, axios |-> FALSE]
    ELSE ClientResolve(service, ClientBaseUrl(prefix), ClientSslVerify(prefix))

(***************************************************************************)
(* Operations.  A call is made once, in the environment the process        *)
(* started with.                                                           *)
(***************************************************************************)
\* The services whose resolution the environment is about: it sets no
\* variable scoped to another service.
ServicesOf(e) == {s \in Services : DOMAIN e \subseteq GlobalNames \cup ScopedNames(s)}

GetNetworkConfig ==
    /\ call.fn = "none"
    /\ \E rev \in {1, 2}, service \in ServicesOf(env), baseUrl \in Targets :
         call' = [fn |-> "getNetworkConfig", rev |-> rev, service |-> service,
                  url |-> baseUrl, sslVerify |-> NetSslVerify(toUpperCase(service)),
                  locals |-> NetLocals(toUpperCase(service)),
                  out |-> getNetworkConfig(rev, service, baseUrl)]
    /\ UNCHANGED <<env, requests, oauth>>

GetProxyConfig ==
    /\ call.fn = "none"
    /\ \E service \in ServicesOf(env), targetUrl \in Targets, sslVerify \in BOOLEAN :
         call' = [fn |-> "getProxyConfig", rev |-> 0, service |-> service,
                  url |-> targetUrl, sslVerify |-> sslVerify,
                  locals |-> ProxyLocals(toUpperCase(service)),
                  out |-> getProxyConfig(service, targetUrl, sslVerify)]
    /\ UNCHANGED <<env, requests, oauth>>

GetProxyConfigOneArg ==
    /\ call.fn = "none"
    /\ \E service \in ServicesOf(env) :
         call' = [fn |-> "getProxyConfigOneArg", rev |-> 0, service |-> service,
                  url |-> <<>>, sslVerify |-> TRUE,
                  locals |-> OneArgLocals(toUpperCase(service)),
                  out |-> getProxyConfigOneArg(toUpperCase(service))]
    /\ UNCHANGED <<env, requests, oauth>>

NewJiraClient ==
    /\ call.fn = "none"
    /\ call' = [fn |-> "JiraClient", rev |-> 0, service |-> "jira",
                url |-> ClientBaseUrl("JIRA"), sslVerify |-> ClientSslVerify("JIRA"),
                out |-> ClientConstructor("jira", "JIRA")]
    /\ UNCHANGED <<env, requests, oauth>>

NewConfluenceClient ==
    /\ call.fn = "none"
    /\ call' = [fn |-> "ConfluenceClient", rev |-> 0, service |-> "confluence",
                url |-> ClientBaseUrl("CONFLUENCE"),
                sslVerify |-> ClientSslVerify("CONFLUENCE"),
                out |-> ClientConstructor("confluence", "CONFLUENCE")]
    /\ UNCHANGED <<env, requests, oauth>>

Next ==
    \/ GetNetworkConfig
    \/ GetProxyConfig
    \/ GetProxyConfigOneArg
    \/ NewJiraClient
    \/ NewConfluenceClient

Spec == Init /\ [][Next]_vars

(***************************************************************************)
(* The one-argument getProxyConfig alone, over the variables it reads.     *)
(***************************************************************************)
OneArgNames(service) ==
    {toUpperCase(service) \o x : x \in {"_HTTPS_PROXY", "_HTTP_PROXY", "_NO_PROXY"}}
      \cup {"HTTPS_PROXY", "https_proxy", "HTTP_PROXY", "http_proxy",
             "NO_PROXY", "no_proxy"}

InitOneArg ==
    /\ \E s \in Services :
         \E set \in {t \in SUBSET OneArgNames(s) : Cardinality(t) <= MaxEnvSet} :
           env \in EnvsOver(set)
    /\ call = [fn |-> "none"]
    /\ requests = <<>>
    /\ oauth = NoOAuth

NextOneArg == GetProxyConfigOneArg

SpecOneArg == InitOneArg /\ [][NextOneArg]_vars

(***************************************************************************)
(* The matcher on its own: shouldBypassProxy applied to a target and a     *)
(* NO_PROXY string.                                                        *)
(***************************************************************************)
HostAlphabet == {"a", "B", "."}

Hostnames == Strings(HostAlphabet, 1, MaxHostLen)

MatchTargets ==
    {Https \o Slashes \o h : h \in Hostnames}
      \cup {<<"a",".","b">>, Https \o Slashes, Https \o Slashes \o <<"a"," ","b">>}

\* What is written between the commas of a NO_PROXY string.
EntryTexts == {<<>>, <<"*">>, <<"b">>, <<".","b">>, <<" ",".","B"," ">>}

RECURSIVE Joined(_)
Joined(n) ==
    IF n = 0 THEN {}
    ELSE IF n = 1 THEN EntryTexts
    ELSE Joined(n - 1) \cup
         {l \o <<",">> \o e : l \in Joined(n - 1), e \in EntryTexts}

NoProxyLists == {Undefined} \cup Joined(MaxEntries)

InitMatch ==
    /\ env = <<>>
    /\ call = [fn |-> "none"]
    /\ requests = <<>>
    /\ oauth = NoOAuth

ShouldBypassProxyNet ==
    /\ call.fn = "none"
    /\ \E url \in MatchTargets, noProxy \in NoProxyLists :
         call' = [fn |-> "shouldBypassProxy", rev |-> "net", url |-> url,
                  noProxy |-> noProxy, out |-> shouldBypassProxyNet(url, noProxy)]
    /\ UNCHANGED <<env, requests, oauth>>

ShouldBypassProxy ==
    /\ call.fn = "none"
    /\ \E targetUrl \in MatchTargets, noProxy \in NoProxyLists :
         call' = [fn |-> "shouldBypassProxy", rev |-> "proxy", url |-> targetUrl,
                  noProxy |-> noProxy, out |-> shouldBypassProxy(targetUrl, noProxy)]
    /\ UNCHANGED <<env, requests, oauth>>

NextMatch ==
    \/ ShouldBypassProxyNet
    \/ ShouldBypassProxy

SpecMatch == InitMatch /\ [][NextMatch]_vars

(***************************************************************************)
(* The operations of a constructed ConfluenceClient and JiraClient.  The   *)
(* answer of the server is an input of the operation; process.env may be   *)
(* changed between two operations.                                         *)
(***************************************************************************)
TrueStr == <<"t","r","u","e">>

ModeValues == {Undefined, TrueStr, FalseStr, <<"T","R","U","E">>}

\* Mutant of ReadOnlyMode: the mode is never found on.
ReadOnlyModeIgnored == FALSE

\* process.env.READ_ONLY_MODE === 'true'
ReadOnlyMode == Getenv("READ_ONLY_MODE") = TrueStr

Sent(method) == [method |-> method, mode |-> Getenv("READ_ONLY_MODE")]

\* await this.client.<method>(...): the request is issued, and the operation
\* returns response.data or logs and rethrows the error.
Request(fn, method, ok) ==
    /\ call' = [fn |-> fn, mode |-> Getenv("READ_ONLY_MODE"), sent |-> method,
                out |-> IF ok THEN "returned" ELSE "rejected"]
    /\ requests' = Append(requests, Sent(method))

\* An exception before the request: nothing is sent.
Throws(fn) ==
    /\ call' = [fn |-> fn, mode |-> Getenv("READ_ONLY_MODE"), sent |-> "none",
                out |-> "threw"]
    /\ UNCHANGED requests

WriteOperation(fn, method) ==
    IF ReadOnlyMode THEN Throws(fn)
    ELSE \E ok \in BOOLEAN : Request(fn, method, ok)

\* keysValid: validateKey accepts the keys the operation checks, if any.
ReadOperation(fn, keysValid) ==
    IF ~keysValid THEN Throws(fn)
    ELSE \E ok \in BOOLEAN : Request(fn, "GET", ok)

search ==
    /\ Len(requests) < MaxRequests
    /\ \E keysValid \in BOOLEAN : ReadOperation("search", keysValid)
    /\ UNCHANGED <<env, oauth>>

getPage ==
    /\ Len(requests) < MaxRequests
    /\ ReadOperation("getPage", TRUE)
    /\ UNCHANGED <<env, oauth>>

createPage ==
    /\ Len(requests) < MaxRequests
    /\ WriteOperation("createPage", "POST")
    /\ UNCHANGED <<env, oauth>>

updatePage ==
    /\ Len(requests) < MaxRequests
    /\ WriteOperation("updatePage", "PUT")
    /\ UNCHANGED <<env, oauth>>

getSpaces ==
    /\ Len(requests) < MaxRequests
    /\ ReadOperation("getSpaces", TRUE)
    /\ UNCHANGED <<env, oauth>>

searchIssues ==
    /\ Len(requests) < MaxRequests
    /\ \E keysValid \in BOOLEAN : ReadOperation("searchIssues", keysValid)
    /\ UNCHANGED <<env, oauth>>

getIssue ==
    /\ Len(requests) < MaxRequests
    /\ ReadOperation("getIssue", TRUE)
    /\ UNCHANGED <<env, oauth>>

createIssue ==
    /\ Len(requests) < MaxRequests
    /\ WriteOperation("createIssue", "POST")
    /\ UNCHANGED <<env, oauth>>

updateIssue ==
    /\ Len(requests) < MaxRequests
    /\ WriteOperation("updateIssue", "PUT")
    /\ UNCHANGED <<env, oauth>>

addComment ==
    /\ Len(requests) < MaxRequests
    /\ WriteOperation("addComment", "POST")
    /\ UNCHANGED <<env, oauth>>

getProjects ==
    /\ Len(requests) < MaxRequests
    /\ ReadOperation("getProjects", TRUE)
    /\ UNCHANGED <<env, oauth>>

\* The process, or its operator, sets or unsets READ_ONLY_MODE.
SetReadOnlyMode ==
    /\ \E v \in ModeValues :
         env' = IF v = Undefined THEN <<>> ELSE [n \in {"READ_ONLY_MODE"} |-> v]
    /\ UNCHANGED <<call, requests, oauth>>

InitOps ==
    /\ \E v \in ModeValues :
         env = IF v = Undefined THEN <<>> ELSE [n \in {"READ_ONLY_MODE"} |-> v]
    /\ call = [fn |-> "none"]
    /\ requests = <<>>
    /\ oauth = NoOAuth

NextOps ==
    \/ search
    \/ getPage
    \/ createPage
    \/ updatePage
    \/ getSpaces
    \/ searchIssues
    \/ getIssue
    \/ createIssue
    \/ updateIssue
    \/ addComment
    \/ getProjects
    \/ SetReadOnlyMode

SpecOps == InitOps /\ [][NextOps]_vars

(***************************************************************************)
(* The OAuth setup, from the call of waitForCallback(server, state) on.    *)
(* The promise settles once: resolve and reject on a settled promise do    *)
(* nothing.  A connection opened before server.close() still delivers      *)
(* requests afterwards.                                                    *)
(***************************************************************************)
Null == <<"null">>

\* The state generateOAuthState produced for this run.
ExpectedState == <<"s","1">>

CallbackPath == <<"/","c","a","l","l","b","a","c","k">>

RequestTargets == {CallbackPath, <<"/">>, <<"/","/">>}

RequestStates == {Null, ExpectedState, <<"s","2">>}

RequestCodes == {Null, <<>>, <<"c","1">>, <<"c","2">>}

RequestErrors == {Null, <<"d","e","n","i","e","d">>}

NoRequest == [target |-> <<>>, state |-> Null, code |-> Null, error |-> Null]

\* new URL(req.url, base): a target that begins with // names its own host.
RequestURL(target) ==
    IF startsWith(target, <<"/","/">>)
    THEN [ok |-> URL(Http \o <<":">> \o target).ok, pathname |-> <<"/">>]
    ELSE [ok |-> TRUE, pathname |-> target]

\* url.searchParams.get(name) gives null or a string; null is falsy.
Given(param) == param # Null /\ param # <<>>

Reject(o, reason) ==
    IF o.promise = "pending" THEN [o EXCEPT !.promise = "rejected", !.value = reason]
    ELSE o

Resolve(o, code) ==
    IF o.promise = "pending" THEN [o EXCEPT !.promise = "resolved", !.value = code]
    ELSE o

clearTimeout(o) == IF o.timer = "armed" THEN [o EXCEPT !.timer = "cleared"] ELSE o

ServerClose(o) == [o EXCEPT !.server = "closed"]

Respond(o, status) == [o EXCEPT !.res = status]

\* Mutant of StateMismatch: the state parameter is not compared.
StateNeverMismatch(req) == FALSE

StateMismatch(req) == req.state # ExpectedState

\* res.writeHead; res.end; clearTimeout(timeout); server.close(); then settle.
Settle400(o, reason) == Reject(ServerClose(clearTimeout(Respond(o, 400))), reason)

Settle200(o, code) == Resolve(ServerClose(clearTimeout(Respond(o, 200))), code)

OnCallback(o, req) ==
    IF StateMismatch(req) THEN Settle400(o, "state-mismatch")
    ELSE IF Given(req.error) THEN Settle400(o, "oauth-error")
    ELSE IF Given(req.code) THEN Settle200(o, req.code)
    ELSE Respond(o, 404)

\* The TypeError of new URL leaves the listener uncaught: the process ends.
Crash(o) == [o EXCEPT !.pc = "crashed", !.res = 0]

OnRequest(o, req, url) ==
    IF ~url.ok THEN Crash(o)
    ELSE IF url.pathname = CallbackPath THEN OnCallback(o, req)
    ELSE Respond(o, 404)

Received(o, req) ==
    [o EXCEPT !.req = req, !.handled = o.handled + 1, !.connected = TRUE]

Alive == oauth.pc \notin {"none", "crashed"}

HandleRequest ==
    /\ Alive
    /\ oauth.server = "listening" \/ oauth.connected
    /\ oauth.handled < MaxCallbacks
    /\ \E target \in RequestTargets, state \in RequestStates,
          code \in RequestCodes, error \in RequestErrors :
         oauth' = OnRequest(Received(oauth, [target |-> target, state |-> state,
                                             code |-> code, error |-> error]),
                            [target |-> target, state |-> state,
                             code |-> code, error |-> error],
                            RequestURL(target))
    /\ UNCHANGED <<env, call, requests>>

\* The 5-minute timer fires.
Timeout ==
    /\ Alive
    /\ oauth.timer = "armed"
    /\ oauth' = Reject(ServerClose([oauth EXCEPT !.timer = "fired"]), "timeout")
    /\ UNCHANGED <<env, call, requests>>

\* runOAuthSetup after await waitForCallback: exchangeCodeForTokens(config,
\* authCode), or the catch that logs the failure.
ContinueSetup ==
    /\ oauth.pc = "waiting"
    /\ oauth.promise # "pending"
    /\ oauth' = IF oauth.promise = "resolved"
                THEN [oauth EXCEPT !.pc = "exchanged", !.exchanged = oauth.value]
                ELSE [oauth EXCEPT !.pc = "failed"]
    /\ UNCHANGED <<env, call, requests>>

InitOAuth ==
    /\ env = <<>>
    /\ call = [fn |-> "none"]
    /\ requests = <<>>
    /\ oauth = [pc |-> "waiting", promise |-> "pending", value |-> Null,
                server |-> "listening", timer |-> "armed", connected |-> FALSE,
                req |-> NoRequest, res |-> 0, handled |-> 0, exchanged |-> Null]

NextOAuth ==
    \/ HandleRequest
    \/ Timeout
    \/ ContinueSetup

\* A timer that is armed fires, and a settled await resumes.
SpecOAuth ==
    InitOAuth /\ [][NextOAuth]_vars /\ WF_vars(Timeout) /\ WF_vars(ContinueSetup)

(***************************************************************************)
(* What the claims speak of, stated apart from the code above.             *)
(***************************************************************************)
\* The first non-empty value of a chain of variables, "" when there is none.
FirstNonEmpty(values) ==
    IF \E i \in 1..Len(values) : Truthy(values[i])
    THEN values[CHOOSE i \in 1..Len(values) :
                  Truthy(values[i]) /\ \A j \in 1..(i - 1) : ~Truthy(values[j])]
    ELSE <<>>

\* x is the setting y: equal when y is non-empty, and empty or unset otherwise.
SameSetting(x, y) == IF Truthy(y) THEN x = y ELSE ~Truthy(x)

Chain(prefix, suffix, upper, lower) ==
    FirstNonEmpty(<<Getenv(prefix \o suffix), Getenv(upper), Getenv(lower)>>)

\* Some entry of the list, trimmed, lower-cased and non-empty, matches host h.
HostMatches(h, noProxy) ==
    /\ Truthy(noProxy)
    /\ \E i \in 1..Len(split(noProxy, ",")) :
         LET e == toLowerCase(trim(split(noProxy, ",")[i]))
         IN  /\ e # <<>>
             /\ \/ e = <<"*">>
                \/ e = h
                \/ e[1] = "." /\ endsWith(h, e)
                \/ e[1] # "." /\ endsWith(h, <<".">> \o e)

Bypassed(url, noProxy) == URL(url).ok /\ HostMatches(URL(url).hostname, noProxy)

IsNet == call.fn = "getNetworkConfig"

IsProxy == call.fn = "getProxyConfig"

CallPrefix == toUpperCase(call.service)

Config == call.out.config

HasSocksAgent == Config.httpAgent.kind = "socks" \/ Config.httpsAgent.kind = "socks"

HasHttpProxyAgent ==
    \/ Config.httpAgent.kind \in {"http-proxy", "https-proxy"}
    \/ Config.httpsAgent.kind \in {"http-proxy", "https-proxy"}

NetSocksEndpoint == Chain(CallPrefix, "_SOCKS_PROXY", "SOCKS_PROXY", "socks_proxy")

NetHttpsEndpoint == Chain(CallPrefix, "_HTTPS_PROXY", "HTTPS_PROXY", "https_proxy")

NetHttpEndpoint == Chain(CallPrefix, "_HTTP_PROXY", "HTTP_PROXY", "http_proxy")

NetNoProxyList == Chain(CallPrefix, "_NO_PROXY", "NO_PROXY", "no_proxy")

\* C1: a config returned by getNetworkConfig for a target that is not bypassed,
\* with a non-empty SOCKS endpoint, has the one SOCKS agent built from that
\* endpoint as httpAgent and as httpsAgent and proxy false, whatever the HTTP
\* and HTTPS variables hold; and no returned config holds both a SOCKS agent
\* and an HTTP or HTTPS proxy agent.
C1_SocksExclusive ==
    (IsNet /\ call.out.status = "returned") =>
      /\ (Truthy(NetSocksEndpoint) /\ ~Bypassed(call.url, NetNoProxyList)) =>
           /\ Config.httpAgent.kind = "socks"
           /\ Config.httpAgent.proxy = NetSocksEndpoint
           /\ Config.httpsAgent = Config.httpAgent
           /\ Config.proxy = "false"
      /\ ~(HasSocksAgent /\ HasHttpProxyAgent)

C1_Witness ==
    /\ IsNet /\ call.out.status = "returned"
    /\ Truthy(NetSocksEndpoint) /\ Truthy(NetHttpsEndpoint)
    /\ Truthy(NetNoProxyList) /\ ~Bypassed(call.url, NetNoProxyList)
    /\ Config.httpsAgent.kind = "socks"

\* C2: when the NO_PROXY list a resolver read matches the target's host, the
\* call returns a config without httpAgent, without proxy agent and without the
\* proxy flag; its httpsAgent is the direct agent with rejectUnauthorized false
\* when TLS verification is disabled, and the config is empty otherwise.
C2_BypassInstallsNoProxy ==
    ((IsNet \/ IsProxy) /\ Bypassed(call.url, call.locals.noProxy)) =>
      /\ call.out.status = "returned"
      /\ Config.httpAgent = NoAgent
      /\ Config.proxy = "absent"
      /\ IF call.sslVerify THEN Config = EmptyConfig
         ELSE Config.httpsAgent = Agent("direct", <<>>, "false", 1)

C2_Witness ==
    /\ IsProxy /\ Bypassed(call.url, call.locals.noProxy)
    /\ Truthy(call.locals.httpsProxy)
    /\ ~call.sslVerify
    /\ Config.httpsAgent.kind = "direct"

\* C3: each endpoint and the NO_PROXY list of getNetworkConfig is the first
\* non-empty value of its own chain <SVC>_X, X, x (a scoped variable set to ""
\* falls through); and with HTTPS_PROXY alone set and a valid https target the
\* HTTPS proxy agent is built from HTTPS_PROXY.
C3_ChainPerSetting ==
    IsNet =>
      /\ SameSetting(call.locals.socksProxy, NetSocksEndpoint)
      /\ SameSetting(call.locals.httpsProxy, NetHttpsEndpoint)
      /\ SameSetting(call.locals.httpProxy, NetHttpEndpoint)
      /\ SameSetting(call.locals.noProxy, NetNoProxyList)
      /\ (DOMAIN env = {"HTTPS_PROXY"} /\ URL(call.url).protocol = Https \o <<":">>) =>
           /\ call.out.status = "returned"
           /\ Config.httpsAgent.kind = "https-proxy"
           /\ Config.httpsAgent.proxy = env["HTTPS_PROXY"]

C3_Witness ==
    /\ IsNet /\ call.out.status = "returned"
    /\ Getenv(CallPrefix \o "_HTTPS_PROXY") = <<>>
    /\ Truthy(Getenv("HTTPS_PROXY"))
    /\ Truthy(Getenv("https_proxy"))
    /\ Config.httpsAgent.kind = "https-proxy"
    /\ Config.httpsAgent.proxy = env["HTTPS_PROXY"]

ProxyChain(prefix, suffix, upper, lower, npm) ==
    FirstNonEmpty(<<Getenv(prefix \o suffix), Getenv(upper), Getenv(lower), Getenv(npm)>>)

\* C4: the HTTP and the HTTPS endpoint of the three-argument getProxyConfig are
\* each the first non-empty value of the service-scoped variable, the upper-case
\* global variable, the lower-case global variable and the npm fallback, in
\* that order.
C4_LowerCaseBeforeNpm ==
    IsProxy =>
      /\ SameSetting(call.locals.httpProxy,
                     ProxyChain(CallPrefix, "_HTTP_PROXY", "HTTP_PROXY", "http_proxy",
                                "npm_config_proxy"))
      /\ SameSetting(call.locals.httpsProxy,
                     ProxyChain(CallPrefix, "_HTTPS_PROXY", "HTTPS_PROXY", "https_proxy",
                                "npm_config_https_proxy"))

\* C5: a config the three-argument getProxyConfig returns for a valid target
\* that is not bypassed, with the HTTP or the HTTPS endpoint non-empty, has for
\* an https target an httpsAgent built from the HTTPS endpoint, else from the
\* HTTP endpoint, and for an http target an httpAgent built from the HTTP
\* endpoint, else from the HTTPS endpoint.
C5_AgentForTargetScheme ==
    ( /\ IsProxy /\ call.out.status = "returned"
      /\ URL(call.url).ok /\ ~Bypassed(call.url, call.locals.noProxy)
      /\ (Truthy(call.locals.httpProxy) \/ Truthy(call.locals.httpsProxy)) ) =>
      /\ URL(call.url).protocol = Https \o <<":">> =>
           /\ Config.httpsAgent.kind = "https-proxy"
           /\ Config.httpsAgent.proxy = Or(call.locals.httpsProxy, call.locals.httpProxy)
      /\ URL(call.url).protocol = Http \o <<":">> =>
           /\ Config.httpAgent.kind = "http-proxy"
           /\ Config.httpAgent.proxy = Or(call.locals.httpProxy, call.locals.httpsProxy)

\* C6: in every config getNetworkConfig returns, proxy is false exactly when
\* httpAgent or httpsAgent is populated.
C6_ProxyFlagWithEveryAgent ==
    (IsNet /\ call.out.status = "returned") =>
      (Config.proxy = "false" <=> (Config.httpAgent # NoAgent \/ Config.httpsAgent # NoAgent))

IsClient == call.fn \in {"JiraClient", "ConfluenceClient"}

SslVerifyIsFalse == Getenv(CallPrefix \o "_SSL_VERIFY") = FalseStr

\* C7: getNetworkConfig runs with TLS verification disabled, and returns an
\* agent with rejectUnauthorized false, exactly when <SVC>_SSL_VERIFY is the
\* string "false"; and the sslVerify argument a client constructor passes to
\* getProxyConfig is false exactly then.
C7_VerifyOffOnlyByFalse ==
    /\ IsNet =>
         /\ call.sslVerify = ~SslVerifyIsFalse
         /\ call.out.status = "returned" =>
              (SslVerifyIsFalse <=>
                 \/ Config.httpAgent.rejectUnauthorized = "false"
                 \/ Config.httpsAgent.rejectUnauthorized = "false")
    /\ IsClient =>
         \A i \in 1..Len(call.out.resolverCalls) :
            call.out.resolverCalls[i].sslVerify = ~SslVerifyIsFalse

C7_Witness ==
    /\ IsNet /\ call.out.status = "returned"
    /\ Getenv(CallPrefix \o "_SSL_VERIFY") = <<"F","A","L","S","E">>
    /\ Config.httpsAgent.kind = "https-proxy"
    /\ Config.httpsAgent.rejectUnauthorized # "false"

\* C8: every call of getNetworkConfig and of getProxyConfig returns a config,
\* whatever the proxy variables hold.
C8_ResolverNeverRaises ==
    (IsNet \/ IsProxy) => call.out.status = "returned"

IsMatch == call.fn = "shouldBypassProxy"

\* C9: for a target that parses as a URL with host h, shouldBypassProxy (both
\* revisions) is true exactly when some entry of the list, trimmed, lower-cased
\* and non-empty, is "*", equals h, starts with "." and is a suffix of h, or
\* does not start with "." and "." followed by it is a suffix of h.
C9_BypassIffEntryMatches ==
    (IsMatch /\ URL(call.url).ok) =>
      /\ call.out \in {"true", "false"}
      /\ call.out = "true" <=> HostMatches(URL(call.url).hostname, call.noProxy)

C9_Witness ==
    /\ IsMatch /\ URL(call.url).hostname = <<"a","b">>
    /\ call.noProxy = <<"b",","," ",".","B"," ">>
    /\ call.out = "false"

\* C10: for a target that does not parse as a URL, shouldBypassProxy (both
\* revisions) returns false for every list and raises nothing.
C10_FailOpenOnBadTarget ==
    (IsMatch /\ ~URL(call.url).ok) => call.out = "false"

C10_Witness ==
    /\ IsMatch /\ ~URL(call.url).ok
    /\ call.noProxy = <<"*">>
    /\ call.out = "false"

NoEndpointRead ==
    /\ ~Truthy(call.locals.httpProxy)
    /\ ~Truthy(call.locals.httpsProxy)
    /\ IsNet => ~Truthy(call.locals.socksProxy)

\* C11: a call of getNetworkConfig or of getProxyConfig that read no non-empty
\* proxy endpoint returns the empty config when TLS verification is enabled,
\* and otherwise a config whose only field is httpsAgent, the direct agent with
\* rejectUnauthorized false.
C11_NoProxyConfigured ==
    ((IsNet \/ IsProxy) /\ NoEndpointRead) =>
      /\ call.out.status = "returned"
      /\ Config = IF call.sslVerify THEN EmptyConfig
                  ELSE [EmptyConfig EXCEPT !.httpsAgent = Agent("direct", <<>>, "false", 1)]

C11_Witness ==
    /\ IsNet /\ NoEndpointRead
    /\ URL(call.url).ok
    /\ SslVerifyIsFalse
    /\ Config.httpsAgent.kind = "direct"
    /\ Config.httpAgent = NoAgent

ClientMustThrow ==
    \/ ~Truthy(Getenv(CallPrefix \o "_URL"))
    \/ /\ ~Truthy(Getenv(CallPrefix \o "_PERSONAL_TOKEN"))
       /\ ~(Truthy(Getenv(CallPrefix \o "_USERNAME")) /\ Truthy(Getenv(CallPrefix \o "_API_TOKEN")))

\* C13: a client constructor throws exactly when <SVC>_URL is empty or absent or
\* the credentials are missing; when it throws, the resolver was not called and
\* no HTTP client was created; when it does not, the resolver was called once,
\* with the service name and the base URL.
C13_ConstructorThrowsIffMisconfigured ==
    IsClient =>
      /\ call.out.status = "threw" <=> ClientMustThrow
      /\ call.out.status = "threw" =>
           call.out.resolverCalls = <<>> /\ ~call.out.axios
      /\ call.out.status # "threw" =>
           /\ Len(call.out.resolverCalls) = 1
           /\ call.out.resolverCalls[1].service = call.service
           /\ call.out.resolverCalls[1].targetUrl = Getenv(CallPrefix \o "_URL")

\* C14: a config getNetworkConfig returns has, when <SVC>_SSL_VERIFY is "false",
\* an httpsAgent with rejectUnauthorized false in every branch, and has, when
\* verification is enabled, no agent with rejectUnauthorized false.
C14_TlsOverrideInEveryBranch ==
    (IsNet /\ call.out.status = "returned") =>
      IF SslVerifyIsFalse
      THEN Config.httpsAgent.rejectUnauthorized = "false"
      ELSE /\ Config.httpAgent.rejectUnauthorized # "false"
           /\ Config.httpsAgent.rejectUnauthorized # "false"

C14_Witness ==
    /\ IsNet /\ call.out.status = "returned"
    /\ SslVerifyIsFalse
    /\ Truthy(NetHttpsEndpoint)
    /\ Config.httpsAgent.kind = "socks"
    /\ Config.httpsAgent.rejectUnauthorized = "false"

\* C18: for a target that does not parse as a URL, getNetworkConfig and
\* getProxyConfig do what they do for a target that is not bypassed, whatever the
\* NO_PROXY list holds: getNetworkConfig installs the SOCKS agent if a SOCKS
\* endpoint was read and else the HTTP/HTTPS agents, and getProxyConfig selects
\* as for a target of the scheme the string begins with.
C18_BadTargetStillProxied ==
    ((IsNet \/ IsProxy) /\ ~URL(call.url).ok) =>
      /\ IsNet =>
           /\ call.out = NetSelect(call.rev, call.sslVerify, call.locals.httpProxy,
                                   call.locals.httpsProxy, call.locals.socksProxy,
                                   "false")
           /\ (call.out.status = "returned" /\ Truthy(call.locals.socksProxy)) =>
                Config.httpsAgent.kind = "socks"
           /\ ( /\ call.out.status = "returned" /\ ~Truthy(call.locals.socksProxy)
                /\ Truthy(Or(call.locals.httpsProxy, call.locals.httpProxy)) ) =>
                /\ Config.httpsAgent.kind = "https-proxy"
                /\ Config.httpsAgent.proxy =
                     Or(call.locals.httpsProxy, call.locals.httpProxy)
      /\ IsProxy =>
           call.out = ProxySelect(startsWith(call.url, Https), call.locals.httpProxy,
                                  call.locals.httpsProxy, "false", call.sslVerify)

C18_Witness ==
    /\ IsProxy /\ ~URL(call.url).ok
    /\ call.locals.noProxy = <<"*">>
    /\ call.out.status = "returned"
    /\ Config.httpAgent.kind = "http-proxy"

FlipCase(c) ==
    IF c \in UpperSet THEN LowerOf[c]
    ELSE IF \E u \in UpperSet : LowerOf[u] = c THEN CHOOSE u \in UpperSet : LowerOf[u] = c
    ELSE c

FlipCaseAt(s, i) == [s EXCEPT ![i] = FlipCase(s[i])]

InsertAt(s, i, x) == SubSeq(s, 1, i) \o x \o SubSeq(s, i + 1, Len(s))

\* The places of a list where an entry begins or ends.
EntryBoundaries(s) ==
    {i \in 0..Len(s) :
       \/ i = 0
       \/ i = Len(s)
       \/ s[i] = ","
       \/ s[i + 1] = ","}

\* The places of a target that hold its host.
HostPlaces(url) ==
    IF startsWith(url, Https \o Slashes)
    THEN (Len(Https \o Slashes) + 1)..Len(url)
    ELSE {}

MatchAgain(url, noProxy) ==
    IF call.rev = "net" THEN shouldBypassProxyNet(url, noProxy)
    ELSE shouldBypassProxy(url, noProxy)

\* The same for a target already parsed.
MatchParsed(parsed, noProxy) ==
    IF ~Truthy(noProxy) THEN "false"
    ELSE IF call.rev = "net" THEN BypassNet(parsed, noProxy)
    ELSE BypassProxy(parsed, noProxy)

\* C15: the result of shouldBypassProxy (both revisions) is the same after the
\* case of one letter of the list or of the target's host is changed, after a
\* space is added before or after an entry, and after an empty entry is added
\* by a leading, trailing or doubled comma.
C15_CaseAndSpaceInsensitive ==
    IsMatch =>
      /\ \A i \in HostPlaces(call.url) :
           MatchAgain(FlipCaseAt(call.url, i), call.noProxy) = call.out
      /\ call.noProxy # Undefined =>
           LET parsed == URL(call.url)
           IN  /\ \A i \in 1..Len(call.noProxy) :
                    MatchParsed(parsed, FlipCaseAt(call.noProxy, i)) = call.out
               /\ \A i \in EntryBoundaries(call.noProxy) :
                    /\ MatchParsed(parsed, InsertAt(call.noProxy, i, <<" ">>)) = call.out
                    /\ MatchParsed(parsed, InsertAt(call.noProxy, i, <<",">>)) = call.out

C15_Witness ==
    /\ IsMatch /\ call.rev = "proxy"
    /\ call.url = Https \o Slashes \o <<"a",".","B">>
    /\ call.noProxy = <<",", " ", ".", "B", " ">>
    /\ call.out = "true"

\* C20: for every target and every NO_PROXY string the shouldBypassProxy of
\* src/utils/proxy.ts and the exported one return the same result.
C20_RevisionsAgree ==
    IsMatch =>
      shouldBypassProxy(call.url, call.noProxy)
        = shouldBypassProxyNet(call.url, call.noProxy)

C20_Witness ==
    /\ IsMatch /\ call.rev = "proxy"
    /\ URL(call.url).ok
    /\ call.noProxy = <<".", "b">>
    /\ endsWith(URL(call.url).hostname, <<".", ".", "b">>)
    /\ call.out = "true"
    /\ shouldBypassProxyNet(call.url, call.noProxy) = "true"

IsOneArg == call.fn = "getProxyConfigOneArg"

ServiceProxyValues ==
    {v \in {Getenv(CallPrefix \o "_HTTPS_PROXY"), Getenv(CallPrefix \o "_HTTP_PROXY")} :
       Truthy(v)}

\* C12: when <SVC>_HTTPS_PROXY or <SVC>_HTTP_PROXY is set, the agents the
\* one-argument getProxyConfig returns are built from one of these values,
\* never from a global variable.
C12_ServiceBeforeGlobal ==
    (IsOneArg /\ call.out.status = "returned" /\ ServiceProxyValues # {}) =>
      /\ Config.httpAgent.proxy \in ServiceProxyValues
      /\ Config.httpsAgent.proxy \in ServiceProxyValues

WriteOps == {"createPage", "updatePage", "createIssue", "updateIssue", "addComment"}

ReadOps == {"search", "getPage", "getSpaces", "searchIssues", "getIssue", "getProjects"}

\* C16: no POST or PUT is among the requests issued while READ_ONLY_MODE was
\* "true"; a write operation called in that mode throws and sends nothing; and
\* a read operation whose keys are valid sends its GET in every mode.
C16_ReadOnlyGate ==
    /\ \A i \in 1..Len(requests) :
         requests[i].method \in {"POST", "PUT"} => requests[i].mode # TrueStr
    /\ (call.fn \in WriteOps /\ call.mode = TrueStr) =>
         call.out = "threw" /\ call.sent = "none"
    /\ (call.fn \in WriteOps /\ call.mode # TrueStr) => call.sent \in {"POST", "PUT"}
    /\ (call.fn \in ReadOps /\ call.out # "threw") => call.sent = "GET"
    /\ (call.fn \in {"getPage", "getSpaces", "getIssue", "getProjects"}) =>
         call.out # "threw"

C16_Witness ==
    /\ Len(requests) = 1
    /\ requests[1].method = "POST"
    /\ call.fn = "updatePage"
    /\ call.mode = TrueStr
    /\ call.out = "threw"

Handled == oauth'.handled # oauth.handled

MismatchedCallback(req) == req.target = CallbackPath /\ req.state # ExpectedState

\* C17: the wait resolves only on a /callback request whose state is the
\* expected one, and with that request's code; a /callback request with another
\* or no state is answered 400, rejects a pending wait with the state-mismatch
\* error and never resolves it; and the code passed to exchangeCodeForTokens
\* is the code the wait resolved with.
C17_CodeOnlyForExpectedState ==
    /\ [][(oauth.promise # "resolved" /\ oauth'.promise = "resolved") =>
            /\ Handled
            /\ oauth'.req.target = CallbackPath
            /\ oauth'.req.state = ExpectedState
            /\ Given(oauth'.req.code)
            /\ oauth'.value = oauth'.req.code]_vars
    /\ [][(Handled /\ MismatchedCallback(oauth'.req)) =>
            /\ oauth'.res = 400
            /\ oauth.promise = "pending" =>
                 oauth'.promise = "rejected" /\ oauth'.value = "state-mismatch"
            /\ oauth.promise # "pending" =>
                 oauth'.promise = oauth.promise /\ oauth'.value = oauth.value
            /\ oauth'.exchanged = oauth.exchanged]_vars
    /\ [](oauth.exchanged # Null =>
            oauth.promise = "resolved" /\ oauth.exchanged = oauth.value)

C17_Witness ==
    /\ oauth.pc = "failed"
    /\ MismatchedCallback(oauth.req)
    /\ Given(oauth.req.code)
    /\ oauth.res = 400
    /\ oauth.promise = "rejected"
    /\ oauth.value = "state-mismatch"
    /\ oauth.exchanged = Null

\* A request that settles a pending wait.
Settling(req) ==
    /\ req.target = CallbackPath
    /\ \/ req.state # ExpectedState
       \/ Given(req.error)
       \/ Given(req.code)

\* C19: every wait settles; once settled its outcome does not change; a
\* settled wait has closed the server, and cleared the timer unless the timer
\* settled it; the first settling event settles a pending wait; and every
\* other request is answered 404 and leaves the wait as it was.
C19_SettlesExactlyOnce ==
    /\ <>(oauth.promise # "pending")
    /\ [][oauth.promise # "pending" =>
            oauth'.promise = oauth.promise /\ oauth'.value = oauth.value]_vars
    /\ [](oauth.promise # "pending" =>
            /\ oauth.server = "closed"
            /\ oauth.value # "timeout" => oauth.timer = "cleared")
    /\ [][(Handled /\ Settling(oauth'.req) /\ oauth.promise = "pending") =>
            oauth'.promise # "pending"]_vars
    /\ [][(Handled /\ ~Settling(oauth'.req)) =>
            /\ oauth'.res = 404
            /\ oauth'.promise = oauth.promise]_vars

NoProxyNames == {CallPrefix \o "_NO_PROXY", "NO_PROXY", "no_proxy"}

\* The environments that differ from the call's at most in the bypass
\* variables: each of them unset or set to any of its values.
NoProxyVariants ==
    {[n \in DOMAIN env \ NoProxyNames |-> env[n]] @@ e :
       e \in UNION {EnvsOver(set) : set \in SUBSET NoProxyNames}}

SomeProxyUrlResolves ==
    \E name \in {CallPrefix \o "_HTTPS_PROXY", "HTTPS_PROXY", "https_proxy",
                  CallPrefix \o "_HTTP_PROXY", "HTTP_PROXY", "http_proxy"} :
      Truthy(Getenv(name))

\* C21: the outcome of the one-argument getProxyConfig is the same in every
\* environment that differs from the call's only in <SVC>_NO_PROXY, NO_PROXY
\* or no_proxy; and a returned config carries both agents with proxy false
\* when some proxy variable holds a non-empty value, and no agent with proxy
\* undefined when none does, whatever the bypass variables hold.
C21_NoProxyIgnored ==
    IsOneArg =>
      /\ \A e \in NoProxyVariants : getProxyConfigOneArgIn(e, CallPrefix) = call.out
      /\ (call.out.status = "returned" /\ SomeProxyUrlResolves) =>
           /\ Config.httpAgent.kind = "http-proxy"
           /\ Config.httpsAgent.kind = "https-proxy"
           /\ Config.proxy = "false"
      /\ ~SomeProxyUrlResolves =>
           /\ call.out.status = "returned"
           /\ Config.httpAgent = NoAgent
           /\ Config.httpsAgent = NoAgent
           /\ Config.proxy = "undefined"

\* A call with a bypass list set to "*" that still returns both proxy agents.
C21_Witness ==
    /\ IsOneArg
    /\ Getenv("NO_PROXY") = <<"*">>
    /\ Truthy(Getenv(CallPrefix \o "_NO_PROXY"))
    /\ call.out.status = "returned"
    /\ Config.httpAgent.kind = "http-proxy"
    /\ Config.httpsAgent.kind = "https-proxy"
    /\ Cardinality(NoProxyVariants) > 1

====
